---- MODULE Spec2Model ----
(***************************************************************************)
(* rust-sitter tool (tool/src/lib.rs): the compiler from an annotated      *)
(* schema (modules, enums, variants, leaf fields) to tree-sitter grammar   *)
(* objects.  generate_grammars walks the items of a root file, and         *)
(* generate_grammar compiles every module marked #[rust_sitter::grammar]   *)
(* into a rules map.  The model is the call tree of generate_grammars run  *)
(* one step at a time: the walk of generate_all_grammars, and inside       *)
(* generate_grammar one step per insertion into the rules map.             *)
(***************************************************************************)
EXTENDS Integers, Sequences, FiniteSets, TLC

\* ------------------------------------------------------------------ bounds

\* Most fields of the variant of a leaf-detail input.
MaxFields == 2
\* Most enums and variants together in a group-structure input.
MaxGroupNodes == 3
\* Most items (modules, enums, other items) in a module-tree input.
MaxTreeNodes == 4

\* ------------------------------------------------- the syntax tree (syn)

\* Attribute paths the code compares with (lines 30, 111, 181).
LeafPath == "rust_sitter::leaf"
LanguagePath == "rust_sitter::language"
GrammarPath == "rust_sitter::grammar"

\* An expression of a leaf parameter: Expr::Lit(Lit::Str), Expr::Lit(Lit::Int),
\* Expr::Closure, Expr::Path.
LitStr(s) == [kind |-> "LitStr", value |-> s]
LitInt(n) == [kind |-> "LitInt", value |-> n]
ClosureExpr == [kind |-> "Closure", value |-> "|v| v.parse().unwrap()"]
PathExpr == [kind |-> "Path", value |-> "DIGITS"]

\* NameValueExpr { path, eq_token, expr }: one `name = expr` of an attribute.
NameValueExpr(p, e) == [path |-> p, expr |-> e]

\* The arguments of an attribute: a token stream that parses as a
\* comma-separated list of NameValueExpr (ok), or does not, and then the
\* message of the syn::Error that parse_args_with returns.
Args(params) == [ok |-> TRUE, params |-> params]
BadArgs(error) == [ok |-> FALSE, params |-> <<>>, error |-> error]
Attr(p, args) == [path |-> p, args |-> args]
Marker(p) == Attr(p, Args(<<>>))

\* Field { attrs, ident, .. }: ident is NoIdent for a tuple field.
NoIdent == [some |-> FALSE]
SomeIdent(s) == [some |-> TRUE, name |-> s]
Field(ident, attrs) == [ident |-> ident, attrs |-> attrs]
\* Variant { ident, fields, .. }
Variant(ident, fields) == [ident |-> ident, fields |-> fields]
\* Item::Enum(ItemEnum { attrs, ident, variants, .. })
EnumItem(ident, attrs, variants) ==
    [kind |-> "Enum", ident |-> ident, attrs |-> attrs, variants |-> variants]
\* Item::Mod(ItemMod { attrs, content, .. }): content is None for `mod m;`.
NoContent == [some |-> FALSE, items |-> <<>>]
SomeContent(items) == [some |-> TRUE, items |-> items]
ModItem(attrs, content) == [kind |-> "Mod", attrs |-> attrs, content |-> content]
\* Any other item (a struct, a function, a use).
OtherItem == [kind |-> "Other"]

\* ------------------------------------------------------ serde_json values

Symbol(name) == [type |-> "SYMBOL", name |-> name]
PatternRule(s) == [type |-> "PATTERN", value |-> s]
SeqRule(members) == [type |-> "SEQ", members |-> members]
ChoiceRule(members) == [type |-> "CHOICE", members |-> members]
AliasRule(root) ==
    [type |-> "ALIAS", named |-> FALSE, value |-> root, content |-> Symbol(root)]
GrammarValue(rules) == [name |-> "grammar", rules |-> rules]

\* Map::new() and Map::insert: the value of an existing key is replaced.
EmptyMap == [k \in {} |-> 0]
MapInsert(m, key, value) ==
    [k \in (DOMAIN m) \cup {key} |-> IF k = key THEN value ELSE m[k]]

\* The string a Value serialises to (Value::to_string, line 183), kept as the
\* Value it parses back to: serialisation is injective on Values.
to_string(v) == [json |-> v]
from_str(s) == s.json

\* format!("{}_{}", a, b), lines 67, 83, 140, 148.
format2(a, b) == a \o "_" \o b

\* Panic messages of the standard library and of the code (without their
\* backquotes).  Result::unwrap appends ": " and the Debug of the error, which
\* for a syn::Error is Error("<message>").
UnwrapNoneMsg == "called Option::unwrap() on a None value"
UnwrapErrMsg(error) ==
    "called Result::unwrap() on an Err value: Error(\"" \o error \o "\")"
PatternLitMsg == "Expected pattern to be a string literal"
TodoMsg == "not yet implemented"
RootExpectMsg ==
    "Each parser must have the root type annotated with #[rust_sitter::language]"
ExplicitPanicMsg == "explicit panic"

\* ------------------------------------------------------- pure functions

\* Iterator::find: of the indices of the elements that satisfy the closure,
\* the first, 0 when there is none.
FirstIndex(hits) ==
    IF hits = {} THEN 0 ELSE CHOOSE i \in hits : \A j \in hits : i <= j

\* Iterator::any over the attributes of an item.
HasAttr(attrs, p) == \E i \in 1..Len(attrs) : attrs[i].path = p

Ok(m) == [ok |-> TRUE, map |-> m]
Panic(msg) == [ok |-> FALSE, msg |-> msg]

\* gen_leaf with the first parameter of the leaf attribute taken for the
\* pattern, whatever its name.
gen_leaf_first_param(path, leaf, out) ==
    LET ai == FirstIndex({ n \in 1..Len(leaf.attrs) : leaf.attrs[n].path = LeafPath })
    IN  IF ai = 0 THEN Panic(UnwrapNoneMsg)
        ELSE LET leaf_attr == leaf.attrs[ai]
             IN  IF ~leaf_attr.args.ok
                 THEN Panic(UnwrapErrMsg(leaf_attr.args.error))
                 ELSE LET leaf_params == leaf_attr.args.params
                      IN  IF Len(leaf_params) = 0 THEN Panic(TodoMsg)
                          ELSE LET e == leaf_params[1].expr
                               IN  IF e.kind = "LitStr"
                                   THEN Ok(MapInsert(out, path, PatternRule(e.value)))
                                   ELSE IF e.kind = "LitInt"
                                   THEN Panic(PatternLitMsg)
                                   ELSE Panic(TodoMsg)

\* gen_leaf(path, leaf, out): the map after the call, or the panic it ends in.
gen_leaf(path, leaf, out) ==
    LET ai == FirstIndex({ n \in 1..Len(leaf.attrs) : leaf.attrs[n].path = LeafPath })
    IN  IF ai = 0 THEN Panic(UnwrapNoneMsg)
        ELSE LET leaf_attr == leaf.attrs[ai]
             IN  IF ~leaf_attr.args.ok
                 THEN Panic(UnwrapErrMsg(leaf_attr.args.error))
                 ELSE LET leaf_params == leaf_attr.args.params
                          pi == FirstIndex({ n \in 1..Len(leaf_params) :
                                               leaf_params[n].path = "pattern" })
                      IN  IF pi = 0 THEN Panic(TodoMsg)
                          ELSE LET e == leaf_params[pi].expr
                               IN  IF e.kind = "LitStr"
                                   THEN Ok(MapInsert(out, path, PatternRule(e.value)))
                                   ELSE IF e.kind = "LitInt"
                                   THEN Panic(PatternLitMsg)
                                   ELSE Panic(TodoMsg)

\* ident_str of field i (1-based here, 0-based in the code), lines 61-65, 78-82.
ident_str(field, i) ==
    IF field.ident.some THEN field.ident.name ELSE ToString(i - 1)

\* The key gen_enum_variant passes to gen_leaf for field i, line 67.
leaf_path(path, variant, i) == format2(path, ident_str(variant.fields[i], i))

\* children with the positional index counted from 1.
children_from_one(path, variant) ==
    [i \in 1..Len(variant.fields) |->
        Symbol(format2(path, IF variant.fields[i].ident.some
                             THEN variant.fields[i].ident.name ELSE ToString(i)))]

\* children of gen_enum_variant, lines 73-89.
children(path, variant) ==
    [i \in 1..Len(variant.fields) |->
        Symbol(format2(path, ident_str(variant.fields[i], i)))]

\* The key of a variant's rule, lines 140 and 148.
variant_path(e, v) == format2(e.ident, v.ident)

\* members of generate_grammar, lines 146-153.
members(e) ==
    [i \in 1..Len(e.variants) |-> Symbol(variant_path(e, e.variants[i]))]

\* The find_map of generate_grammar, lines 105-119: the index of the first
\* enum among contents that carries #[rust_sitter::language], 0 for None.
IsRootEnum(item) == item.kind = "Enum" /\ HasAttr(item.attrs, LanguagePath)
root_index(contents) ==
    FirstIndex({ n \in 1..Len(contents) : IsRootEnum(contents[n]) })

\* Whether generate_all_grammars compiles module m, lines 179-182.
is_grammar(m) == HasAttr(m.attrs, GrammarPath)

\* ---------------------------------------------------------------- inputs

EnumNames == {"A", "A_B", "source_file"}
VariantNames == {"B", "C"}
FieldNames == {"x", "y"}

Grammar == <<Marker(GrammarPath)>>
Language == <<Marker(LanguagePath)>>

Leaf(params) == Attr(LeafPath, Args(params))

\* The messages of syn for #[rust_sitter::leaf], an attribute without
\* arguments, and for #[rust_sitter::leaf(pattern 42)], a parameter without
\* its = (without the backquotes around the =).
NoParensError ==
    "expected attribute arguments in parentheses: #[rust_sitter::leaf(...)]"
NoEqError == "expected ="

\* The attribute lists of a field: the leaf of the repository's test, a leaf
\* whose pattern comes second, a leaf after another attribute, and the
\* malformed ones (a number as pattern, no pattern, a pattern that is no
\* literal, no leaf attribute, no arguments, arguments that do not parse).
LeafAttrCases ==
    { <<Leaf(<<NameValueExpr("pattern", LitStr("\\d+")),
               NameValueExpr("transform", ClosureExpr)>>)>>,
      <<Leaf(<<NameValueExpr("transform", ClosureExpr),
               NameValueExpr("pattern", LitStr("[a-z]+"))>>)>>,
      <<Attr("cfg", Args(<<NameValueExpr("feature", LitStr("nightly"))>>)),
        Leaf(<<NameValueExpr("pattern", LitStr("if"))>>)>>,
      <<Leaf(<<NameValueExpr("pattern", LitInt(42))>>)>>,
      <<Leaf(<<NameValueExpr("transform", ClosureExpr)>>)>>,
      <<Leaf(<<NameValueExpr("pattern", PathExpr)>>)>>,
      <<>>,
      <<Attr(LeafPath, BadArgs(NoParensError))>>,
      <<Attr(LeafPath, BadArgs(NoEqError))>> }

\* Fields::Unnamed and Fields::Named with k fields (Fields::Unit for k = 0).
TupleFields(k) ==
    { [i \in 1..k |-> Field(NoIdent, attrs[i])] : attrs \in [1..k -> LeafAttrCases] }
NamedFields(k) ==
    { [i \in 1..k |-> Field(SomeIdent(names[i]), attrs[i])] :
        names \in [1..k -> FieldNames], attrs \in [1..k -> LeafAttrCases] }
FieldLists == UNION { TupleFields(k) \cup NamedFields(k) : k \in 0..MaxFields }

\* Leaf-detail inputs: one grammar module, one root enum, one variant, every
\* field list.
LeafInputs ==
    { <<ModItem(Grammar, SomeContent(<<EnumItem("A", Language, <<Variant("B", fl)>>)>>))>> :
        fl \in FieldLists }

\* Group-structure inputs: one grammar module whose items are enums, of every
\* name, with and without the root marker, with variants of every name that
\* are unit variants or hold the leaf of the repository's test.
TestLeaf ==
    Field(NoIdent, <<Leaf(<<NameValueExpr("pattern", LitStr("\\d+")),
                            NameValueExpr("transform", ClosureExpr)>>)>>)
GroupVariants == { Variant(n, fl) : n \in VariantNames, fl \in {<<>>, <<TestLeaf>>} }
\* The enums of n nodes: the enum and n - 1 variants.
GroupEnums(n) ==
    { EnumItem(name, attrs, vs) :
        name \in EnumNames, attrs \in {<<>>, Language}, vs \in [1..(n - 1) -> GroupVariants] }
RECURSIVE GroupItems(_)
\* The sequences of enums of n nodes in all.
GroupItems(n) ==
    IF n = 0 THEN {<<>>}
    ELSE UNION { { <<e>> \o rest : e \in GroupEnums(k), rest \in GroupItems(n - k) } :
                 k \in 1..n }
GroupInputs ==
    { <<ModItem(Grammar, SomeContent(items))>> :
        items \in UNION { GroupItems(n) : n \in 0..MaxGroupNodes } }

\* Module-tree inputs: modules, marked or not, nested in each other, around a
\* root enum without variants and an item that is neither module nor enum.
RootEnum == EnumItem("A", Language, <<>>)
RECURSIVE TreeItems(_)
RECURSIVE TreeItem(_)
\* The items of n nodes: the item and the n - 1 nodes of a module's content.
TreeItem(n) ==
    { ModItem(attrs, SomeContent(items)) :
        attrs \in {<<>>, Grammar}, items \in TreeItems(n - 1) }
    \cup (IF n = 1 THEN {RootEnum, OtherItem, ModItem(Grammar, NoContent)} ELSE {})
\* The sequences of items of n nodes in all.
TreeItems(n) ==
    IF n = 0 THEN {<<>>}
    ELSE UNION { { <<t>> \o rest : t \in TreeItem(k), rest \in TreeItems(n - k) } :
                 k \in 1..n }
TreeInputs == UNION { TreeItems(n) : n \in 0..MaxTreeNodes }

\* The root files generate_grammars is run on.
Inputs == LeafInputs \cup GroupInputs \cup TreeInputs

\* ------------------------------------------------------------------ state

VARIABLES
    rootFile,   \* the items of the inlined root file (line 189)
    stack,      \* the calls of generate_all_grammars in progress, outermost first
    pc,         \* "walk", "grammar" (inside generate_grammar), "returned", "panicked"
    pos,        \* generate_grammar's place: item, variant and field in turn
    rules_map,  \* generate_grammar's rules_map
    out,        \* generate_grammars' out
    outSrc,     \* for each element of out, the path of the module it was compiled from
    result      \* what the caller of generate_grammars gets

vars == <<rootFile, stack, pc, pos, rules_map, out, outSrc, result>>

\* A path is the sequence of item indices that leads from the root file to a
\* module; the frame of path <<>> is the for_each of generate_grammars.
RECURSIVE ItemIn(_, _)
ItemIn(items, path) ==
    IF Len(path) = 1 THEN items[path[1]]
    ELSE ItemIn(items[path[1]].content.items, Tail(path))
ItemAt(path) == ItemIn(rootFile, path)
\* The items a frame iterates: none when the module's content is None.
ItemsOf(path) == IF path = <<>> THEN rootFile ELSE ItemAt(path).content.items

Top == stack[Len(stack)]
CurItems == ItemsOf(Top.path)
CurMod == ItemAt(Top.path)
Idle == [item |-> 0, variant |-> 0, field |-> 0]

\* push at the front instead of the back.
push_front(v, x) == <<x>> \o v

\* Vec::push, line 183.
push(v, x) == Append(v, x)

\* The for_each of the top frame moves on to its next item.
NextItem == [stack EXCEPT ![Len(stack)].idx = @ + 1]
\* The call of the top frame returns, and its caller's for_each moves on.
ReturnToCaller ==
    LET n == Len(stack) IN [SubSeq(stack, 1, n - 1) EXCEPT ![n - 1].idx = @ + 1]

\* A panic unwinds through generate_grammars: nothing is returned.
PanicWith(msg) ==
    /\ pc' = "panicked"
    /\ result' = [kind |-> "Panic", msg |-> msg]

Init ==
    /\ rootFile \in Inputs
    /\ stack = <<[path |-> <<>>, idx |-> 1]>>
    /\ pc = "walk"
    /\ pos = Idle
    /\ rules_map = EmptyMap
    /\ out = <<>>
    /\ outSrc = <<>>
    /\ result = [kind |-> "Running"]

\* generate_all_grammars on an item that is no module: nothing (line 174).
SkipItem ==
    /\ pc = "walk"
    /\ Top.idx <= Len(CurItems)
    /\ CurItems[Top.idx].kind # "Mod"
    /\ stack' = NextItem
    /\ UNCHANGED <<rootFile, pc, pos, rules_map, out, outSrc, result>>

\* generate_all_grammars on a module: first its items, lines 174-177.
EnterMod ==
    /\ pc = "walk"
    /\ Top.idx <= Len(CurItems)
    /\ CurItems[Top.idx].kind = "Mod"
    /\ stack' = Append(stack, [path |-> Append(Top.path, Top.idx), idx |-> 1])
    /\ UNCHANGED <<rootFile, pc, pos, rules_map, out, outSrc, result>>

\* generate_all_grammars after the items of a module without the grammar
\* attribute: return, lines 179-185.
LeaveMod ==
    /\ pc = "walk"
    /\ Len(stack) > 1
    /\ Top.idx > Len(CurItems)
    /\ ~is_grammar(CurMod)
    /\ stack' = ReturnToCaller
    /\ UNCHANGED <<rootFile, pc, pos, rules_map, out, outSrc, result>>

\* generate_grammar up to the insertion of source_file, lines 100-134.
BeginGrammar ==
    /\ pc = "walk"
    /\ Len(stack) > 1
    /\ Top.idx > Len(CurItems)
    /\ is_grammar(CurMod)
    /\ IF ~CurMod.content.some
       THEN PanicWith(UnwrapNoneMsg) /\ UNCHANGED <<pos, rules_map>>
       ELSE LET contents == CurMod.content.items
                ri == root_index(contents)
            IN  IF ri = 0
                THEN PanicWith(RootExpectMsg) /\ UNCHANGED <<pos, rules_map>>
                ELSE /\ rules_map' =
                          MapInsert(EmptyMap, "source_file", AliasRule(contents[ri].ident))
                     /\ pos' = [item |-> 1, variant |-> 1, field |-> 1]
                     /\ pc' = "grammar"
                     /\ UNCHANGED result
    /\ UNCHANGED <<rootFile, stack, out, outSrc>>

Contents == CurMod.content.items
CurEnum == Contents[pos.item]
CurVariant == CurEnum.variants[pos.variant]
InEnum == pc = "grammar" /\ pos.item <= Len(Contents) /\ CurEnum.kind = "Enum"
InVariant == InEnum /\ pos.variant <= Len(CurEnum.variants)

\* generate_grammar on an item that is no enum, line 164.
UnsupportedItem ==
    /\ pc = "grammar"
    /\ pos.item <= Len(Contents)
    /\ CurEnum.kind # "Enum"
    /\ PanicWith(ExplicitPanicMsg)
    /\ UNCHANGED <<rootFile, stack, pos, rules_map, out, outSrc>>

\* One gen_leaf call of gen_enum_variant, lines 60-71.
GenLeaf ==
    /\ InVariant
    /\ pos.field <= Len(CurVariant.fields)
    /\ LET path == variant_path(CurEnum, CurVariant)
           r == gen_leaf(leaf_path(path, CurVariant, pos.field),
                         CurVariant.fields[pos.field], rules_map)
       IN  IF r.ok
           THEN /\ rules_map' = r.map
                /\ pos' = [pos EXCEPT !.field = @ + 1]
                /\ UNCHANGED <<pc, result>>
           ELSE PanicWith(r.msg) /\ UNCHANGED <<pos, rules_map>>
    /\ UNCHANGED <<rootFile, stack, out, outSrc>>

\* The rest of gen_enum_variant: the SEQ rule of the variant, lines 73-97.
GenSeq ==
    /\ InVariant
    /\ pos.field > Len(CurVariant.fields)
    /\ LET path == variant_path(CurEnum, CurVariant)
       IN  rules_map' = MapInsert(rules_map, path, SeqRule(children(path, CurVariant)))
    /\ pos' = [pos EXCEPT !.variant = @ + 1, !.field = 1]
    /\ UNCHANGED <<rootFile, stack, pc, out, outSrc, result>>

\* After the variants of an enum: its CHOICE rule, lines 146-161.
GenChoice ==
    /\ InEnum
    /\ pos.variant > Len(CurEnum.variants)
    /\ rules_map' = MapInsert(rules_map, CurEnum.ident, ChoiceRule(members(CurEnum)))
    /\ pos' = [item |-> pos.item + 1, variant |-> 1, field |-> 1]
    /\ UNCHANGED <<rootFile, stack, pc, out, outSrc, result>>

\* generate_grammar returns and generate_all_grammars pushes the grammar's
\* text, lines 167-170 and 183.
EndGrammar ==
    /\ pc = "grammar"
    /\ pos.item > Len(Contents)
    /\ out' = push(out, to_string(GrammarValue(rules_map)))
    /\ outSrc' = push(outSrc, Top.path)
    /\ stack' = ReturnToCaller
    /\ pc' = "walk"
    /\ pos' = Idle
    /\ rules_map' = EmptyMap
    /\ UNCHANGED <<rootFile, result>>

\* generate_grammars returns out, line 194.
Return ==
    /\ pc = "walk"
    /\ Len(stack) = 1
    /\ Top.idx > Len(CurItems)
    /\ pc' = "returned"
    /\ result' = [kind |-> "Ok", value |-> out]
    /\ UNCHANGED <<rootFile, stack, pos, rules_map, out, outSrc>>

Next ==
    \/ SkipItem
    \/ EnterMod
    \/ LeaveMod
    \/ BeginGrammar
    \/ UnsupportedItem
    \/ GenLeaf
    \/ GenSeq
    \/ GenChoice
    \/ EndGrammar
    \/ Return

Spec == Init /\ [][Next]_vars

\* ------------------------------------------------- the schema, as specified

\* What follows reads the schema the way the specification describes it
\* (groups, nonterminals, productions, fields and their identities), apart
\* from the definitions above that model the code.

Compiled == 1..Len(out)
\* The group (module) the i-th GrammarObject was compiled from, and its rules.
GroupOf(i) == ItemAt(outSrc[i])
RulesOf(i) == from_str(out[i]).rules

\* The nonterminals of a group: the indices of its enums.
Nonterminals(g) == { i \in 1..Len(g.content.items) : g.content.items[i].kind = "Enum" }
NT(g, i) == g.content.items[i]
Productions(g, i) == 1..Len(NT(g, i).variants)
Prod(g, i, j) == NT(g, i).variants[j]
FieldsOf(g, i, j) == 1..Len(Prod(g, i, j).fields)
Fld(g, i, j, k) == Prod(g, i, j).fields[k]
Roots(g) == { i \in Nonterminals(g) : \E a \in 1..Len(NT(g, i).attrs) :
                                          NT(g, i).attrs[a].path = LanguagePath }

\* Identities: N, N_P, N_P_F with F the field's name or its 0-based position.
ProdId(g, i, j) == NT(g, i).ident \o "_" \o Prod(g, i, j).ident
FieldLabel(f, k) == IF f.ident.some THEN f.ident.name ELSE ToString(k - 1)
FieldId(g, i, j, k) == ProdId(g, i, j) \o "_" \o FieldLabel(Fld(g, i, j, k), k)

\* A well-formed leaf field: a leaf annotation whose arguments hold a
\* pattern parameter that is a string literal; PatternOf is that string.
LeafAttrs(f) == { a \in { f.attrs[n] : n \in 1..Len(f.attrs) } : a.path = LeafPath }
PatternParams(f) ==
    { p \in UNION { { a.args.params[n] : n \in 1..Len(a.args.params) } : a \in LeafAttrs(f) } :
        p.path = "pattern" }
WellFormedLeaf(f) ==
    /\ \A a \in LeafAttrs(f) : a.args.ok
    /\ PatternParams(f) # {}
    /\ \A p \in PatternParams(f) : p.expr.kind = "LitStr"
PatternOf(f) == (CHOOSE p \in PatternParams(f) : TRUE).expr.value
WellFormedLeaves(g) ==
    \A i \in Nonterminals(g) : \A j \in Productions(g, i) : \A k \in FieldsOf(g, i, j) :
        WellFormedLeaf(Fld(g, i, j, k))

\* The entities of a group that compile to a rule, and the identifier of each.
Entities(g) ==
    {[t |-> "root", i |-> 0, j |-> 0, k |-> 0]}
    \cup { [t |-> "N", i |-> i, j |-> 0, k |-> 0] : i \in Nonterminals(g) }
    \cup UNION { { [t |-> "P", i |-> i, j |-> j, k |-> 0] : j \in Productions(g, i) } :
                 i \in Nonterminals(g) }
    \cup UNION { UNION { { [t |-> "F", i |-> i, j |-> j, k |-> k] : k \in FieldsOf(g, i, j) } :
                         j \in Productions(g, i) } : i \in Nonterminals(g) }
IdOf(g, e) ==
    CASE e.t = "root" -> "source_file"
      [] e.t = "N" -> NT(g, e.i).ident
      [] e.t = "P" -> ProdId(g, e.i, e.j)
      [] e.t = "F" -> FieldId(g, e.i, e.j, e.k)
DistinctIds(g) ==
    \A e1, e2 \in Entities(g) : e1 # e2 => IdOf(g, e1) # IdOf(g, e2)

\* The rule the specification gives each entity.
RootName(g) == NT(g, CHOOSE i \in Roots(g) : TRUE).ident
RuleOf(g, e) ==
    CASE e.t = "root" ->
           [type |-> "ALIAS", named |-> FALSE, value |-> RootName(g),
            content |-> [type |-> "SYMBOL", name |-> RootName(g)]]
      [] e.t = "N" ->
           [type |-> "CHOICE",
            members |-> [j \in Productions(g, e.i) |->
                           [type |-> "SYMBOL", name |-> ProdId(g, e.i, j)]]]
      [] e.t = "P" ->
           [type |-> "SEQ",
            members |-> [k \in FieldsOf(g, e.i, e.j) |->
                           [type |-> "SYMBOL", name |-> FieldId(g, e.i, e.j, k)]]]
      [] e.t = "F" ->
           [type |-> "PATTERN", value |-> PatternOf(Fld(g, e.i, e.j, e.k))]
ExpectedRules(g) ==
    [id \in { IdOf(g, e) : e \in Entities(g) } |->
        RuleOf(g, CHOOSE e \in Entities(g) : IdOf(g, e) = id)]

\* The names of the symbols a SEQ or CHOICE rule refers to, in order.
MemberNames(rule) == [n \in 1..Len(rule.members) |-> rule.members[n].name]

\* ------------------------------------------------------------------ claims

\* C1 (closure): in every GrammarObject of out, every symbol named by a member
\* of a SEQ or CHOICE rule, and by the content of an ALIAS rule, is a key of
\* the same rules map.
C1_Closure ==
    \A i \in Compiled :
        \A id \in DOMAIN RulesOf(i) :
            LET rule == RulesOf(i)[id]
            IN  /\ rule.type \in {"SEQ", "CHOICE"} =>
                     \A n \in 1..Len(rule.members) :
                         /\ rule.members[n].type = "SYMBOL"
                         /\ rule.members[n].name \in DOMAIN RulesOf(i)
                /\ rule.type = "ALIAS" => rule.content.name \in DOMAIN RulesOf(i)

\* C1's case: generate_grammars has returned a GrammarObject with a SEQ rule of
\* two members and a CHOICE rule of one.
C1_Witness ==
    /\ result.kind = "Ok"
    /\ \E i \in 1..Len(result.value) :
         LET rules == from_str(result.value[i]).rules
         IN  /\ \E id \in DOMAIN rules :
                   rules[id].type = "SEQ" /\ Len(rules[id].members) = 2
             /\ \E id \in DOMAIN rules :
                   rules[id].type = "CHOICE" /\ Len(rules[id].members) = 1

\* The groups C2 is about: the content is there and holds only nonterminals,
\* exactly one of them is the root, every field is a well-formed leaf, and no
\* two entities compile to the same identifier.
C2_Group(g) ==
    /\ g.content.some
    /\ Nonterminals(g) = 1..Len(g.content.items)
    /\ Cardinality(Roots(g)) = 1
    /\ WellFormedLeaves(g)
    /\ DistinctIds(g)

\* C2: for such a group generate_grammar returns (it does not panic), and it
\* returns name "grammar" with a rules map whose keys are exactly source_file,
\* every N, every N_P and every N_P_F, each with the rule of its kind: the
\* ALIAS, a CHOICE, a SEQ (empty for a production without fields), a PATTERN
\* with the field's pattern string.
C2_ExactRules ==
    /\ \A i \in Compiled :
         C2_Group(GroupOf(i)) =>
            from_str(out[i]) = [name |-> "grammar", rules |-> ExpectedRules(GroupOf(i))]
    /\ pc = "panicked" => ~C2_Group(CurMod)

\* C2's case: a compiled group of C2's kind with a production of two named
\* fields, one of them a leaf with a transform parameter before its pattern.
C2_Witness ==
    \E i \in Compiled :
        LET g == GroupOf(i)
        IN  /\ C2_Group(g)
            /\ \E n \in Nonterminals(g) : \E j \in Productions(g, n) :
                  /\ Cardinality(FieldsOf(g, n, j)) = 2
                  /\ \E k \in FieldsOf(g, n, j) :
                        \E a \in LeafAttrs(Fld(g, n, j, k)) :
                            a.args.params[1].path = "transform"
            /\ DOMAIN RulesOf(i) = {"source_file", "A", "A_B", "A_B_x", "A_B_y"}

\* The uniqueness the data model grants: nonterminal names differ within a
\* group, production names within a nonterminal, field names within a
\* production.
UniqueNames(g) ==
    /\ \A i1, i2 \in Nonterminals(g) : i1 # i2 => NT(g, i1).ident # NT(g, i2).ident
    /\ \A i \in Nonterminals(g) :
         /\ \A j1, j2 \in Productions(g, i) :
              j1 # j2 => Prod(g, i, j1).ident # Prod(g, i, j2).ident
         /\ \A j \in Productions(g, i) : \A k1, k2 \in FieldsOf(g, i, j) :
              k1 # k2 => FieldLabel(Fld(g, i, j, k1), k1) # FieldLabel(Fld(g, i, j, k2), k2)

\* C3 (order preservation): in every compiled GrammarObject, of a group whose
\* names are unique at each level, the rule under every N is a CHOICE of N's
\* production identities in declaration order and the rule under every N_P is
\* a SEQ of the production's field identities in declaration order.
C3_OrderPreserved ==
    \A i \in Compiled :
        LET g == GroupOf(i)
            rules == RulesOf(i)
        IN  UniqueNames(g) =>
              \A n \in Nonterminals(g) :
                 /\ rules[NT(g, n).ident].type = "CHOICE"
                 /\ MemberNames(rules[NT(g, n).ident]) =
                       [j \in Productions(g, n) |-> ProdId(g, n, j)]
                 /\ \A j \in Productions(g, n) :
                       /\ rules[ProdId(g, n, j)].type = "SEQ"
                       /\ MemberNames(rules[ProdId(g, n, j)]) =
                             [k \in FieldsOf(g, n, j) |-> FieldId(g, n, j, k)]

\* C4 (root aliasing): in every compiled GrammarObject, of a group with one
\* root-marked nonterminal and unique names at each level, the rule under
\* source_file is the unnamed ALIAS whose value and content symbol are the
\* root's name.
C4_RootAlias ==
    \A i \in Compiled :
        LET g == GroupOf(i)
        IN  (Cardinality(Roots(g)) = 1 /\ UniqueNames(g)) =>
              RulesOf(i)["source_file"] =
                 [type |-> "ALIAS", named |-> FALSE, value |-> RootName(g),
                  content |-> [type |-> "SYMBOL", name |-> RootName(g)]]

\* C5 (duplicates rejected): no GrammarObject is produced for a group in which
\* two entities compile to the same rule identifier.
C5_DuplicatesRejected == \A i \in Compiled : DistinctIds(GroupOf(i))

\* C6 (ambiguous root): no rule is emitted and no GrammarObject is produced for
\* a group, of unique names at each level, with more than one root-marked
\* nonterminal.
C6_AmbiguousRootRejected ==
    /\ (pc = "grammar" /\ UniqueNames(CurMod)) => Cardinality(Roots(CurMod)) <= 1
    /\ \A i \in Compiled :
         UniqueNames(GroupOf(i)) => Cardinality(Roots(GroupOf(i))) <= 1

\* The compilation of the module of the top frame, a group without a
\* root-marked nonterminal, has been attempted.
C7_Attempted ==
    /\ pc # "walk"
    /\ Len(stack) > 1
    /\ is_grammar(CurMod)
    /\ CurMod.content.some
    /\ Roots(CurMod) = {}

\* C7 (missing root): the compilation of a group without a root-marked
\* nonterminal ends, before any rule is emitted and without a GrammarObject for
\* the group, in the error MissingRootAnnotation handed to the caller.
C7_MissingRootReported ==
    C7_Attempted =>
        /\ result.kind = "Err"
        /\ result.error = "MissingRootAnnotation"
        /\ rules_map = EmptyMap
        /\ \A i \in Compiled : outSrc[i] # Top.path

\* The paths of the modules below items that carry the grammar attribute.
RECURSIVE MarkedBelow(_, _)
MarkedBelow(items, prefix) ==
    UNION { (IF is_grammar(items[i]) THEN {Append(prefix, i)} ELSE {})
            \cup MarkedBelow(items[i].content.items, Append(prefix, i)) :
            i \in { n \in 1..Len(items) : items[n].kind = "Mod" } }
MarkedGroups == MarkedBelow(rootFile, <<>>)

\* A group that is well-formed apart from the containers it holds.
C8_Group(g) ==
    /\ g.content.some
    /\ \A n \in 1..Len(g.content.items) : g.content.items[n].kind \in {"Enum", "Mod"}
    /\ Cardinality(Roots(g)) = 1
    /\ WellFormedLeaves(g)
    /\ DistinctIds(g)

\* C8 (group discovery): when every grammar-marked module of the tree is such
\* a group, generate_grammars returns one GrammarObject for each of them, at
\* whatever depth, nested in another marked group or not.
C8_OneGrammarPerGroup ==
    (/\ pc \in {"returned", "panicked"}
     /\ \A p \in MarkedGroups : C8_Group(ItemAt(p))) =>
        /\ result.kind = "Ok"
        /\ Len(result.value) = Cardinality(MarkedGroups)
        /\ { outSrc[i] : i \in Compiled } = MarkedGroups

\* A leaf annotation without a pattern parameter, or with a pattern that is
\* not a string literal.
C9_Malformed(f) ==
    /\ LeafAttrs(f) # {}
    /\ \A a \in LeafAttrs(f) : a.args.ok
    /\ \/ PatternParams(f) = {}
       \/ \E p \in PatternParams(f) : p.expr.kind # "LitStr"

\* gen_leaf has been called on a malformed leaf field.
C9_Hit ==
    /\ pc \notin {"walk", "grammar"}
    /\ Len(stack) > 1
    /\ pos.item \in 1..Len(Contents)
    /\ CurEnum.kind = "Enum"
    /\ pos.variant \in 1..Len(CurEnum.variants)
    /\ pos.field \in 1..Len(CurVariant.fields)
    /\ C9_Malformed(CurVariant.fields[pos.field])

\* C9 (malformed leaf): a malformed leaf field ends the compilation of its
\* group in the error value MalformedLeafSpec naming the field identity
\* N_P_F, with no GrammarObject for the group, and the run is not aborted.
C9_MalformedLeafReported ==
    C9_Hit =>
        /\ result.kind = "Err"
        /\ result.error = "MalformedLeafSpec"
        /\ result.path = FieldId(CurMod, pos.item, pos.variant, pos.field)
        /\ \A i \in Compiled : outSrc[i] # Top.path

\* Path p is a proper prefix of path q: the module at q lies inside the one at p.
Encloses(p, q) == Len(p) < Len(q) /\ SubSeq(q, 1, Len(p)) = p
\* The module at p is declared before the one at q, neither inside the other.
DeclaredBefore(p, q) ==
    \E d \in 1..Len(p) :
        /\ d <= Len(q)
        /\ SubSeq(p, 1, d - 1) = SubSeq(q, 1, d - 1)
        /\ p[d] < q[d]
\* Post-order: a group comes before the groups declared after it and before
\* the containers around it.
PostOrder(srcs) ==
    \A i, j \in 1..Len(srcs) :
        i < j => (Encloses(srcs[j], srcs[i]) \/ DeclaredBefore(srcs[i], srcs[j]))

\* C10 (output order): every step leaves out as it is or appends one
\* GrammarObject to it, and the groups of out come in post-order of the tree:
\* of two groups neither inside the other the one declared first, and a group
\* inside a container before that container.
C10_PostOrderAppend ==
    [][/\ Len(out') \in {Len(out), Len(out) + 1}
       /\ SubSeq(out', 1, Len(out)) = out
       /\ Len(outSrc') = Len(out')
       /\ SubSeq(outSrc', 1, Len(outSrc)) = outSrc
       /\ PostOrder(outSrc')]_vars

\* C10's case: the GrammarObject of a group inside a marked container is
\* already in out while the container itself is being compiled.
C10_Witness ==
    /\ pc = "grammar"
    /\ Len(outSrc) >= 1
    /\ Encloses(Top.path, outSrc[Len(outSrc)])

====
